---- MODULE Spec2Model ----
(***************************************************************************)
(* Model of the song pipeline of data/src: the title/artist normalizers    *)
(* and the bulk merge of kaggle_merge.py, the Spotify resolver of          *)
(* spotify_api.py, the scrape store of scrape_billboard.py, the Last.fm    *)
(* stage of lastfm_api.py and the CDC stage of cdc_api.py, over the tables *)
(* of db_setup.py and cdc_api.py.                                          *)
(*                                                                         *)
(* Spec follows scrape, resolver and bulk merge; SpecPop scrape, resolver, *)
(* Last.fm stage and deletions; SpecSetup the two create_tables, the CDC   *)
(* stage and the start of the Last.fm stage on a new database file;        *)
(* SpecScrape, SpecUpsert, SpecNorm, SpecYear and SpecFetch one stage or   *)
(* function each; SpecChart the runs of scrape_billboard.main, SpecLf the  *)
(* runs of populate_lastfm with the limit of __main__, SpecBilling the     *)
(* normalizers on multi-artist billings, SpecSymbols the bulk merge on     *)
(* titles and names without a letter or digit.                             *)
(*                                                                         *)
(* Strings are sequences of one-character strings.  SQL NULL, Python None  *)
(* and pandas NaN are the number NULL; stored measures are numbers >= 1.   *)
(***************************************************************************)
EXTENDS Integers, Sequences, FiniteSets, TLC

VARIABLES
    artists,    \* table Artists: sequence of artist_name, artist_id = index
    scraped,    \* table ScrapedSongs: sequence of rows, id = index
    songs,      \* table Songs: sequence of rows, song_id = index
    saf,        \* table SpotifyAudioFeatures: sequence of rows, id = index
    spState,    \* populate_spotify_for_scraped_songs: "idle", "running", "done", "raised",
                \* "killed"
    workList,   \* rows fetched by the SELECT at the start of the run (ScrapedSongs ids)
    spPos,      \* position of the for loop in workList
    attempted,  \* ids for which get_spotify_track was called in this run
    spError,    \* the exception that ended the run, "none" when there is none
    spCreds,    \* whether SPOTIPY_CLIENT_ID and SPOTIPY_CLIENT_SECRET are set for the run
    notFound,   \* ids for which get_spotify_track returned None in this run
    tx,         \* open transaction of store_spotify_song: <<>>, or one record
                \* [track_info, scraped_song_id, inserted] counting the INSERTs executed
    kgState,    \* kaggle_merge.main: "idle", "updating", "done"
    merged,     \* merged_df of merge_kaggle_with_db_songs
    kgPos,      \* position of iterrows in merged
    schema,     \* tables and indexes of afa.db: set of [name, columns]
    cdcRaw,     \* table CDCRaw: sequence of rows, id = index
    mht,        \* table MentalHealthTrends: sequence of rows, id = index
    mhtLast,    \* per week, the record store_mental_health stored last and whether
                \* the week was stored more than once
    cdcState,   \* cdc_api.main: "idle", "created", "indexed", "rawStored", "done", "raised"
    cdcError,   \* the exception that ended cdc_api.main, "none" when there is none
    popularity, \* table Popularity: sequence of rows, id = index
    lfState,    \* populate_lastfm: "idle", "running", "done", "raised"
    lfRows,     \* rows fetched by the SELECT at the start of populate_lastfm (song ids)
    lfPos,      \* position of the for loop in lfRows
    lfLimit,    \* the limit of the run of populate_lastfm, 0 when none runs
    lfError,    \* "none", the exception that ended populate_lastfm, or "printed" when
                \* the query error was caught, printed and the function returned
    deleted,    \* ids of the rows deleted so far, per table
    sbState,    \* scrape_billboard.main: "idle", "running", "done", "raised"
    sbWeek,     \* position of the for loop in BILLBOARD_WEEKS_2020
    sbInserted, \* total_inserted of the run
    pages,      \* per week of BILLBOARD_WEEKS_2020, the entries its chart page holds
    nText,      \* input of the text function under check
    nOut,       \* its output
    nFn         \* which function produced nOut: "none", "title", "artist", "year",
                \* "raw_rows", "pop"; "feed" or "response" before a parser ran

vars == <<artists, scraped, songs, saf, spState, workList, spPos, attempted,
          spError, spCreds, notFound, tx, kgState, merged, kgPos,
          schema, cdcRaw, mht, mhtLast, cdcState, cdcError,
          popularity, lfState, lfRows, lfPos, lfLimit, lfError, deleted,
          sbState, sbWeek, sbInserted, pages, nText, nOut, nFn>>

dbVars == <<artists, scraped, songs, saf>>
spVars == <<spState, workList, spPos, attempted, spError, spCreds, notFound, tx>>
kgVars == <<kgState, merged, kgPos>>
nVars == <<nText, nOut, nFn>>
cdcVars == <<schema, cdcRaw, mht, mhtLast, cdcState, cdcError>>
lfVars == <<popularity, lfState, lfRows, lfPos, lfLimit, lfError>>
sbVars == <<sbState, sbWeek, sbInserted, pages>>

NULL == 0

\* the first weeks of the list of scrape_billboard.main
BILLBOARD_WEEKS_2020 == <<"2020-04-25", "2020-05-02">>

\* chart pages without entries
NoPages == [w \in DOMAIN BILLBOARD_WEEKS_2020 |-> <<>>]

\* no stage is running
NoProcess ==
    /\ spState = "idle" /\ workList = <<>> /\ spPos = 1 /\ attempted = {}
    /\ spError = "none" /\ spCreds = TRUE /\ notFound = {} /\ tx = <<>>
    /\ kgState = "idle" /\ merged = <<>> /\ kgPos = 1
    /\ cdcState = "idle" /\ cdcError = "none"
    /\ lfState = "idle" /\ lfRows = <<>> /\ lfPos = 1 /\ lfLimit = 0 /\ lfError = "none"
    /\ sbState = "idle" /\ sbWeek = 1 /\ sbInserted = 0

(***************************************************************************)
(* db_setup.py, cdc_api.py: create_tables                                  *)
(***************************************************************************)
Table(name, columns) == [name |-> name, columns |-> columns]

SharedTables ==
    { Table("Songs", {"song_id", "scraped_song_id", "spotify_track_id", "genre",
                      "popularity", "release_year"}),
      Table("SpotifyAudioFeatures", {"id", "song_id", "valence", "energy", "danceability",
                                     "tempo", "acousticness", "instrumentalness"}),
      Table("Popularity", {"id", "song_id", "listener_count", "playcount"}),
      Table("MentalHealthTrends", {"id", "week", "anxiety_percent", "depression_percent"}) }

\* the tables of db_setup.create_tables
DbSetupTables ==
    SharedTables \cup
    { Table("Artists", {"artist_id", "artist_name"}),
      Table("ScrapedSongs", {"id", "song_title", "artist_id", "genre", "chart_date"}),
      Table("CDCGroup", {"group_id", "group_name"}),
      Table("CDCState", {"state_id", "state_name"}),
      Table("CDCIndicator", {"indicator_id", "indicator_name"}),
      Table("CDCTimePeriod", {"time_id", "time_period_start_date"}),
      Table("CDCRaw", {"id", "group_id", "state_id", "indicator_id", "time_id", "value"}) }

\* the tables of cdc_api.create_tables
CdcApiTables ==
    SharedTables \cup
    { Table("ScrapedSongs", {"id", "song_title", "artist_name", "genre", "chart_date"}),
      Table("CDCRaw", {"id", "group_name", "state", "indicator", "time_period_start_date",
                       "value"}) }

\* CREATE UNIQUE INDEX idx_mentalhealthtrends_week ON MentalHealthTrends(week)
WeekIndex == Table("idx_mentalhealthtrends_week", {"week"})

\* CREATE TABLE IF NOT EXISTS, once per table of defs
CreateIfNotExists(sch, defs) ==
    sch \cup {d \in defs : ~\E o \in sch : o.name = d.name}

HasColumns(sch, name, columns) ==
    \E o \in sch : o.name = name /\ columns \subseteq o.columns

NoRowsDeleted == [ScrapedSongs |-> {}, Songs |-> {}, SpotifyAudioFeatures |-> {},
                  Popularity |-> {}]

\* every table is empty
EmptyTables ==
    /\ artists = <<>> /\ scraped = <<>> /\ songs = <<>> /\ saf = <<>>
    /\ popularity = <<>> /\ cdcRaw = <<>> /\ mht = <<>> /\ mhtLast = {}
    /\ deleted = NoRowsDeleted

Min(S) == CHOOSE x \in S : \A y \in S : x <= y

(***************************************************************************)
(* Bounds                                                                  *)
(***************************************************************************)
MaxParts == 3     \* pieces concatenated into a normalizer input
MaxScraped == 2   \* rows ScrapedSongs may hold
MaxLimit == 1     \* largest limit passed to populate_spotify_for_scraped_songs
MaxKaggle == 2    \* rows of the reference file
MaxDate == 5      \* characters of a release_date
MaxFeed == 2      \* rows of a response of the CDC feed
MaxRaw == 2       \* rows CDCRaw may hold
RAW_BATCH_SIZE == 1   \* rows asked of the feed per raw batch (25 in cdc_api.py)
MaxPage == 2      \* entries of a chart page
MaxRuns == 2      \* runs of scrape_billboard.main
MAX_PER_RUN == 3  \* rows a run of scrape_billboard.main stores (25 in scrape_billboard.py)
MaxPrimary == 2   \* pieces of the first artist of a billing
MaxBilled == 1    \* pieces of what follows the marker of a billing
MaxLfSongs == 3   \* Songs rows of the database the Last.fm stage runs on
MAIN_LIMIT == 2   \* limit of populate_lastfm in __main__ (25 in lastfm_api.py)

(***************************************************************************)
(* kaggle_merge.py: normalize_title, normalize_artist                      *)
(***************************************************************************)
UpperChars == <<"A", "B", "C", "D", "E", "F", "G", "H", "I", "J", "K", "L", "M",
                "N", "O", "P", "Q", "R", "S", "T", "U", "V", "W", "X", "Y", "Z">>
LowerChars == <<"a", "b", "c", "d", "e", "f", "g", "h", "i", "j", "k", "l", "m",
                "n", "o", "p", "q", "r", "s", "t", "u", "v", "w", "x", "y", "z">>
DigitChars == {"0", "1", "2", "3", "4", "5", "6", "7", "8", "9"}

\* str.lower() on one character
LowerChar(c) ==
    IF \E i \in 1..26 : UpperChars[i] = c
    THEN LowerChars[CHOOSE i \in 1..26 : UpperChars[i] = c]
    ELSE c

Lower(t) == [i \in 1..Len(t) |-> LowerChar(t[i])]

\* the regex class \s
IsSpace(c) == c \in {" ", "\t", "\n"}

\* the regex class [a-z0-9\s]
IsKept(c) == (\E i \in 1..26 : LowerChars[i] = c) \/ c \in DigitChars \/ IsSpace(c)

\* re.sub(r"\([^)]*\)", " ", t): each "(" with a later ")" is replaced, up to
\* the first ")" after it, by one space
RECURSIVE RemoveParens(_)
RemoveParens(t) ==
    IF t = <<>> THEN <<>>
    ELSE IF Head(t) = "(" /\ \E j \in 2..Len(t) : t[j] = ")"
         THEN LET j == Min({k \in 2..Len(t) : t[k] = ")"})
              IN  <<" ">> \o RemoveParens(SubSeq(t, j + 1, Len(t)))
         ELSE <<Head(t)>> \o RemoveParens(Tail(t))

\* first index at or after i that holds no whitespace (Len(t) + 1 when none)
SkipSpaces(t, i) == Min({k \in i..(Len(t) + 1) : k = Len(t) + 1 \/ ~IsSpace(t[k])})

\* the literal lit stands at index i of t
MatchLit(t, i, lit) ==
    /\ i + Len(lit) - 1 <= Len(t)
    /\ SubSeq(t, i, i + Len(lit) - 1) = lit

\* the regex \s+lit matches at index i
WsLit(t, i, lit) == IsSpace(t[i]) /\ MatchLit(t, SkipSpaces(t, i), lit)

\* the regex \s+lit\s+ matches at index i
WsLitWs(t, i, lit) ==
    /\ WsLit(t, i, lit)
    /\ LET e == SkipSpaces(t, i) + Len(lit)
       IN  e <= Len(t) /\ IsSpace(t[e])

\* re.split(pattern, t)[0], hits being the indices where the pattern
\* matches: the text before the leftmost match
SplitHead(t, hits) == IF hits = {} THEN t ELSE SubSeq(t, 1, Min(hits) - 1)

Feat == <<"f", "e", "a", "t", ".">>
Ft == <<"f", "t", ".">>
Featuring == <<"f", "e", "a", "t", "u", "r", "i", "n", "g">>
And == <<"a", "n", "d">>

\* r"\s+-\s+"
DashSep(t, i) == WsLitWs(t, i, <<"-">>)

\* r"\s+feat\.|\s+ft\.|\s+featuring"
TitleMarker(t, i) == WsLit(t, i, Feat) \/ WsLit(t, i, Ft) \/ WsLit(t, i, Featuring)

\* Mutant of ArtistMarker: "and" and "&" do not split
ArtistMarkerWithoutAnd(t, i) == TitleMarker(t, i)

\* r"\s+feat\.|\s+ft\.|\s+featuring|\s+and\s+|&"
ArtistMarker(t, i) == TitleMarker(t, i) \/ WsLitWs(t, i, And) \/ t[i] = "&"

\* re.sub(r"[^a-z0-9\s]", " ", t)
StripPunct(t) == [i \in 1..Len(t) |-> IF IsKept(t[i]) THEN t[i] ELSE " "]

\* re.sub(r"\s+", " ", t).strip()
RECURSIVE Collapse(_)
Collapse(t) ==
    IF t = <<>> THEN <<>>
    ELSE IF IsSpace(Head(t))
         THEN LET rest == Collapse(SubSeq(t, SkipSpaces(t, 1), Len(t)))
              IN  IF rest = <<>> THEN <<>> ELSE <<" ">> \o rest
         ELSE <<Head(t)>> \o Collapse(Tail(t))

Strip(t) == IF t # <<>> /\ Head(t) = " " THEN Tail(t) ELSE t

normalize_title(text) ==
    LET t1 == RemoveParens(Lower(text))
        t2 == SplitHead(t1, {i \in 1..Len(t1) : DashSep(t1, i)})
        t3 == SplitHead(t2, {i \in 1..Len(t2) : TitleMarker(t2, i)})
    IN  Strip(Collapse(StripPunct(t3)))

normalize_artist(text) ==
    LET t1 == Lower(text)
        t2 == SplitHead(t1, {i \in 1..Len(t1) : ArtistMarker(t1, i)})
    IN  Strip(Collapse(StripPunct(t2)))

(***************************************************************************)
(* Normalizer inputs: concatenations of at most MaxParts pieces             *)
(***************************************************************************)
Pieces == { <<"a">>, <<"B">>, <<" ">>, <<"-">>, <<".">>, <<"(">>, <<")">>, <<"&">>,
            Featuring, <<"f", "e", "a", "t">>, <<"f", "t">>, And }

RECURSIVE Texts(_)
Texts(n) ==
    IF n = 0 THEN {<<>>}
    ELSE Texts(n - 1) \cup {p \o t : p \in Pieces, t \in Texts(n - 1)}

InitNorm ==
    /\ schema = DbSetupTables
    /\ EmptyTables
    /\ NoProcess
    /\ pages = NoPages
    /\ nText \in Texts(MaxParts)
    /\ nOut = <<>>
    /\ nFn = "none"

NormTitle ==
    /\ nFn = "none"
    /\ nOut' = normalize_title(nText)
    /\ nFn' = "title"
    /\ UNCHANGED <<sbVars, cdcVars, lfVars, deleted, nText, dbVars, spVars, kgVars>>

NormArtist ==
    /\ nFn = "none"
    /\ nOut' = normalize_artist(nText)
    /\ nFn' = "artist"
    /\ UNCHANGED <<sbVars, cdcVars, lfVars, deleted, nText, dbVars, spVars, kgVars>>

NextNorm == NormTitle \/ NormArtist

SpecNorm == InitNorm /\ [][NextNorm]_vars

(***************************************************************************)
(* Normalizer inputs: billings a + m + b of a first artist a, a marker m   *)
(* and what follows it                                                     *)
(***************************************************************************)
BillingMarkers ==
    { <<" ">> \o Feat \o <<" ">>, <<" ">> \o Ft \o <<" ">>, <<" ">> \o Featuring \o <<" ">>,
      <<" ">> \o And \o <<" ">>, <<" ", "&", " ">> }

BillingPieces == { <<"a">>, <<"B">>, <<" ">>, <<"&">>, And }

RECURSIVE BillingTexts(_)
BillingTexts(n) ==
    IF n = 0 THEN {<<>>}
    ELSE BillingTexts(n - 1) \cup {p \o t : p \in BillingPieces, t \in BillingTexts(n - 1)}

\* nText holds <<a, m, b>>
InitBilling ==
    /\ schema = DbSetupTables
    /\ EmptyTables
    /\ NoProcess
    /\ pages = NoPages
    /\ nText \in {<<a, m, b>> : a \in BillingTexts(MaxPrimary), m \in BillingMarkers,
                                b \in BillingTexts(MaxBilled)}
    /\ nOut = <<>>
    /\ nFn = "none"

\* nOut holds the keys of a + m + b and of a
BillingArtist ==
    /\ nFn = "none"
    /\ nOut' = <<normalize_artist(nText[1] \o nText[2] \o nText[3]), normalize_artist(nText[1])>>
    /\ nFn' = "artist"
    /\ UNCHANGED <<sbVars, cdcVars, lfVars, deleted, nText, dbVars, spVars, kgVars>>

BillingTitle ==
    /\ nFn = "none"
    /\ nOut' = <<normalize_title(nText[1] \o nText[2] \o nText[3]), normalize_title(nText[1])>>
    /\ nFn' = "title"
    /\ UNCHANGED <<sbVars, cdcVars, lfVars, deleted, nText, dbVars, spVars, kgVars>>

NextBilling == BillingArtist \/ BillingTitle

SpecBilling == InitBilling /\ [][NextBilling]_vars

(***************************************************************************)
(* spotify_api.py: the release year of get_spotify_track                   *)
(***************************************************************************)
\* str.split("-")[0]: the text before the first "-"
BeforeDash(t) ==
    LET dashes == {i \in DOMAIN t : t[i] = "-"}
    IN  IF dashes = {} THEN t ELSE SubSeq(t, 1, Min(dashes) - 1)

AllDigits(t) == \A i \in DOMAIN t : t[i] \in DigitChars

DigitValue(c) == CHOOSE n \in 0..9 : ToString(n) = c

RECURSIVE ToInt(_)
ToInt(t) ==
    IF t = <<>> THEN 0
    ELSE 10 * ToInt(SubSeq(t, 1, Len(t) - 1)) + DigitValue(t[Len(t)])

\* release_year = None; if release_date: release_year = int(release_date.split("-")[0])
\* int() raises ValueError on the empty text and on any character that is
\* neither a digit, a sign, an underscore nor white space
ReleaseYear(release_date) ==
    IF release_date = <<>> THEN [raised |-> FALSE, value |-> NULL]
    ELSE LET head == BeforeDash(release_date)
         IN  IF head # <<>> /\ AllDigits(head)
             THEN [raised |-> FALSE, value |-> ToInt(head)]
             ELSE [raised |-> TRUE, value |-> NULL]

\* characters of a release_date: digits, the separator, a character that is no digit
DateChars == {"2", "0", "1", "-", "x"}

DateTexts(n) == UNION {[1..k -> DateChars] : k \in 0..n}

InitYear ==
    /\ schema = DbSetupTables
    /\ EmptyTables
    /\ NoProcess
    /\ pages = NoPages
    /\ nText \in DateTexts(MaxDate)
    /\ nOut = <<>>
    /\ nFn = "none"

ParseYear ==
    /\ nFn = "none"
    /\ nOut' = ReleaseYear(nText)
    /\ nFn' = "year"
    /\ UNCHANGED <<sbVars, cdcVars, lfVars, deleted, dbVars, spVars, kgVars, nText>>

NextYear == ParseYear

SpecYear == InitYear /\ [][NextYear]_vars

(***************************************************************************)
(* Inputs of the pipeline                                                  *)
(***************************************************************************)
NoLimit == 0 - 1   \* limit=None

\* chart entries a scraped page may hold
ScrapedInputs ==
    { [song_title |-> t, artist_name |-> <<"x">>, chart_date |-> "2020-04-25", genre |-> NULL] :
        t \in {<<"A">>, <<"b">>} }

Measures(v, e, o) ==
    [valence |-> v, energy |-> e, danceability |-> o, tempo |-> o,
     acousticness |-> o, instrumentalness |-> o]

\* what get_spotify_track may return for a found track: the features are all
\* None when sp.audio_features is refused or empty
SpotifyResults ==
    { [track_id |-> "trk", popularity |-> 80,
       release_year |-> ReleaseYear(<<"2", "0", "2", "1", "-", "0", "5">>).value,
       genre |-> NULL,
       features |-> f] : f \in {Measures(NULL, NULL, NULL), Measures(1, 1, 1)} }

\* rows of the reference file: three that normalize to the key of the scraped
\* title "A", one that matches no scraped title
KaggleRow(n, pop, f) ==
    [track_name |-> n, track_artist |-> <<"X">>, track_popularity |-> pop, features |-> f]

KaggleRows ==
    { KaggleRow(<<"a">>, 90, Measures(1, 1, 1)),
      KaggleRow(<<"a", ".">>, 95, Measures(2, NULL, 2)),
      KaggleRow(<<"a">>, 95, Measures(NULL, 2, 2)),
      KaggleRow(<<"c">>, 95, Measures(2, 2, 2)) }

RECURSIVE SeqsUpTo(_, _)
SeqsUpTo(S, n) ==
    IF n = 0 THEN {<<>>}
    ELSE SeqsUpTo(S, n - 1) \cup {Append(q, x) : q \in SeqsUpTo(S, n - 1), x \in S}

(***************************************************************************)
(* scrape_billboard.py: get_or_create_artist, store_scraped_songs          *)
(***************************************************************************)
ArtistId(tbl, name) == CHOOSE i \in DOMAIN tbl : tbl[i] = name

\* Mutant of get_or_create_artist: the SELECT is skipped, every sighting inserts
AlwaysCreateArtist(tbl, name) == Append(tbl, name)

get_or_create_artist(tbl, name) ==
    IF \E i \in DOMAIN tbl : tbl[i] = name THEN tbl ELSE Append(tbl, name)

RECURSIVE StoreAll(_, _, _)
StoreAll(art, scr, list) ==
    IF list = <<>> THEN <<art, scr>>
    ELSE LET song == Head(list)
             art2 == get_or_create_artist(art, song.artist_name)
             row == [song_title |-> song.song_title,
                     artist_id |-> ArtistId(art2, song.artist_name),
                     genre |-> song.genre,
                     chart_date |-> song.chart_date]
         IN  StoreAll(art2, Append(scr, row), Tail(list))

AllIdle ==
    /\ spState = "idle" /\ kgState = "idle" /\ cdcState = "idle" /\ lfState = "idle"
    /\ sbState = "idle"

store_scraped_songs(songs_list) ==
    /\ AllIdle
    /\ Len(scraped) + Len(songs_list) <= MaxScraped
    /\ LET r == StoreAll(artists, scraped, songs_list)
       IN  artists' = r[1] /\ scraped' = r[2]
    /\ UNCHANGED <<sbVars, cdcVars, lfVars, deleted, songs, saf, spVars, kgVars, nVars>>

(***************************************************************************)
(* scrape_billboard.py: scrape_billboard, main                             *)
(***************************************************************************)
UnknownArtist == <<"U", "n", "k", "n", "o", "w", "n", " ", "A", "r", "t", "i", "s", "t">>

\* li.o-chart-results-list__item elements of a page: the title tag or the
\* artist tag may be missing
ChartItems ==
    { [title |-> <<"A">>, artist |-> <<"x">>],
      [title |-> <<"b">>] @@ <<>>,
      [artist |-> <<"x">>] @@ <<>> }

\* the chart pages of the weeks
ChartPages == [DOMAIN BILLBOARD_WEEKS_2020 -> SeqsUpTo(ChartItems, MaxPage)]

\* the list of dicts scrape_billboard returns for the page of a week
RECURSIVE scrape_billboard(_, _)
scrape_billboard(page, chart_date) ==
    IF page = <<>> THEN <<>>
    ELSE LET entry == Head(page)
             rest == scrape_billboard(Tail(page), chart_date)
         IN  IF "title" \notin DOMAIN entry THEN rest
             ELSE <<[song_title |-> entry.title,
                     artist_name |-> IF "artist" \notin DOMAIN entry THEN UnknownArtist
                                     ELSE entry.artist,
                     chart_date |-> chart_date,
                     genre |-> NULL]>> \o rest

\* Mutant of FirstSongs: the whole page is stored
WholePage(list, remaining) == list

\* songs[:remaining]
FirstSongs(list, remaining) ==
    IF Len(list) <= remaining THEN list ELSE SubSeq(list, 1, remaining)

\* main starts: total_inserted = 0, the loop at the first week
SbStart ==
    /\ AllIdle
    /\ Len(scraped) + MAX_PER_RUN <= MaxRuns * MAX_PER_RUN
    /\ sbState' = "running"
    /\ sbWeek' = 1
    /\ sbInserted' = 0
    /\ UNCHANGED <<pages, dbVars, spVars, kgVars, nVars, cdcVars, lfVars, deleted>>

\* the loop goes on: a week is left and total_inserted < MAX_PER_RUN
InWeekLoop ==
    /\ sbState = "running"
    /\ sbWeek <= Len(BILLBOARD_WEEKS_2020)
    /\ sbInserted < MAX_PER_RUN

\* one iteration: scrape the page of the week, store the first remaining
\* entries
SbWeek ==
    /\ InWeekLoop
    /\ LET songs_list == scrape_billboard(pages[sbWeek], BILLBOARD_WEEKS_2020[sbWeek])
           songs_to_store == FirstSongs(songs_list, MAX_PER_RUN - sbInserted)
           r == StoreAll(artists, scraped, songs_to_store)
       IN  /\ artists' = r[1]
           /\ scraped' = r[2]
           /\ sbInserted' = sbInserted + Len(songs_to_store)
    /\ sbWeek' = sbWeek + 1
    /\ UNCHANGED <<sbState, pages, songs, saf, spVars, kgVars, nVars, cdcVars, lfVars, deleted>>

\* requests.get or raise_for_status raises: nothing catches it
SbScrapeRaises ==
    /\ InWeekLoop
    /\ sbState' = "raised"
    /\ UNCHANGED <<sbWeek, sbInserted, pages, dbVars, spVars, kgVars, nVars, cdcVars, lfVars,
                   deleted>>

\* the break, or the list of weeks is exhausted
SbFinish ==
    /\ sbState = "running"
    /\ ~InWeekLoop
    /\ sbState' = "done"
    /\ UNCHANGED <<sbWeek, sbInserted, pages, dbVars, spVars, kgVars, nVars, cdcVars, lfVars,
                   deleted>>

\* the process ends
SbExit ==
    /\ sbState \in {"done", "raised"}
    /\ sbState' = "idle"
    /\ sbWeek' = 1
    /\ sbInserted' = 0
    /\ UNCHANGED <<pages, dbVars, spVars, kgVars, nVars, cdcVars, lfVars, deleted>>

\* chart entries of several artists and weeks
ScrapedInputsByArtist ==
    { [song_title |-> t, artist_name |-> a, chart_date |-> d, genre |-> NULL] :
        t \in {<<"A">>, <<"b">>}, a \in {<<"x">>, <<"y">>, <<"z">>},
        d \in {"2020-04-25", "2020-05-02"} }

(***************************************************************************)
(* spotify_api.py: populate_spotify_for_scraped_songs, store_spotify_song  *)
(***************************************************************************)
\* SELECT id ... FROM ScrapedSongs ORDER BY id [LIMIT ?]
SelectWorkList(scr, limit) ==
    IF limit = NoLimit \/ limit >= Len(scr)
    THEN [i \in 1..Len(scr) |-> i]
    ELSE [i \in 1..limit |-> i]

\* Mutant of Existing: the check for an existing Songs row finds nothing
ExistingNeverFound(tbl, scraped_id) == FALSE

\* SELECT song_id FROM Songs WHERE scraped_song_id = ?
Existing(tbl, scraped_id) == \E s \in DOMAIN tbl : tbl[s].scraped_song_id = scraped_id

SpStart(limit, creds) ==
    /\ AllIdle
    /\ workList' = SelectWorkList(scraped, limit)
    /\ spState' = "running"
    /\ spPos' = 1
    /\ attempted' = {}
    /\ spError' = "none"
    /\ spCreds' = creds
    /\ notFound' = {}
    /\ tx' = <<>>
    /\ UNCHANGED <<sbVars, cdcVars, lfVars, deleted, dbVars, kgVars, nVars>>

InLoop == spState = "running" /\ spPos <= Len(workList) /\ tx = <<>>

\* the row already has a Songs entry: continue
SpSkipExisting ==
    /\ InLoop
    /\ Existing(songs, workList[spPos])
    /\ spPos' = spPos + 1
    /\ UNCHANGED <<sbVars, cdcVars, lfVars, deleted, dbVars, spState, workList, attempted, spError, spCreds, notFound, tx,
                   kgVars, nVars>>

\* get_spotify_track calls get_spotify_client, which raises without credentials
SpNoCredentials ==
    /\ InLoop
    /\ ~Existing(songs, workList[spPos])
    /\ ~spCreds
    /\ attempted' = attempted \cup {workList[spPos]}
    /\ spState' = "raised"
    /\ spError' = "RuntimeError"
    /\ UNCHANGED <<sbVars, cdcVars, lfVars, deleted, dbVars, workList, spPos, spCreds, notFound, tx, kgVars, nVars>>

\* Mutant of SpNotFound: a row with no track is stored for the unmatched entry
SpNotFoundStoresEmptyRow ==
    /\ InLoop
    /\ ~Existing(songs, workList[spPos])
    /\ spCreds
    /\ attempted' = attempted \cup {workList[spPos]}
    /\ notFound' = notFound \cup {workList[spPos]}
    /\ songs' = Append(songs, [scraped_song_id |-> workList[spPos],
                               spotify_track_id |-> NULL, genre |-> NULL,
                               popularity |-> NULL, release_year |-> NULL])
    /\ saf' = Append(saf, [song_id |-> Len(songs) + 1] @@ Measures(NULL, NULL, NULL))
    /\ spPos' = spPos + 1
    /\ UNCHANGED <<sbVars, cdcVars, lfVars, deleted, artists, scraped, spState, workList, spError, spCreds, tx, kgVars, nVars>>

\* get_spotify_track returns None: continue
SpNotFound ==
    /\ InLoop
    /\ ~Existing(songs, workList[spPos])
    /\ spCreds
    /\ attempted' = attempted \cup {workList[spPos]}
    /\ notFound' = notFound \cup {workList[spPos]}
    /\ spPos' = spPos + 1
    /\ UNCHANGED <<sbVars, cdcVars, lfVars, deleted, dbVars, spState, workList, spError, spCreds, tx, kgVars, nVars>>

\* exceptions get_spotify_track lets through: sp.search and sp.audio_features
\* failing, int() of the release date failing
LookupErrors == {"SpotifyException", "ValueError"}

\* get_spotify_track raises: nothing catches it
SpLookupRaises(err) ==
    /\ InLoop
    /\ ~Existing(songs, workList[spPos])
    /\ spCreds
    /\ attempted' = attempted \cup {workList[spPos]}
    /\ spState' = "raised"
    /\ spError' = err
    /\ UNCHANGED <<sbVars, cdcVars, lfVars, deleted, dbVars, workList, spPos, spCreds, notFound, tx, kgVars, nVars>>

InsertSong(tbl, track_info, scraped_song_id) ==
    Append(tbl, [scraped_song_id |-> scraped_song_id,
                 spotify_track_id |-> track_info.track_id,
                 genre |-> track_info.genre,
                 popularity |-> track_info.popularity,
                 release_year |-> track_info.release_year])

InsertFeatures(tbl, song_id, f) ==
    Append(tbl, [song_id |-> song_id] @@ f)

\* get_spotify_track returns track_info: store_spotify_song executes
\* INSERT INTO Songs inside a transaction
SpStore(track_info) ==
    /\ InLoop
    /\ ~Existing(songs, workList[spPos])
    /\ spCreds
    /\ attempted' = attempted \cup {workList[spPos]}
    /\ tx' = <<[track_info |-> track_info, scraped_song_id |-> workList[spPos],
               inserted |-> 1]>>
    /\ UNCHANGED <<sbVars, cdcVars, lfVars, deleted, dbVars, spState, workList, spPos, spError, spCreds, notFound,
                   kgVars, nVars>>

\* store_spotify_song executes INSERT INTO SpotifyAudioFeatures
SpInsertFeatures ==
    /\ spState = "running"
    /\ tx # <<>>
    /\ tx[1].inserted = 1
    /\ tx' = <<[tx[1] EXCEPT !.inserted = 2]>>
    /\ UNCHANGED <<sbVars, cdcVars, lfVars, deleted, dbVars, spState, workList, spPos, attempted, spError, spCreds, notFound,
                   kgVars, nVars>>

\* conn.commit(): both rows become part of the database; the loop goes on
SpCommit ==
    /\ spState = "running"
    /\ tx # <<>>
    /\ tx[1].inserted = 2
    /\ songs' = InsertSong(songs, tx[1].track_info, tx[1].scraped_song_id)
    /\ saf' = InsertFeatures(saf, Len(songs) + 1, tx[1].track_info.features)
    /\ tx' = <<>>
    /\ spPos' = spPos + 1
    /\ UNCHANGED <<sbVars, cdcVars, lfVars, deleted, artists, scraped, spState, workList, attempted, spError, spCreds,
                   notFound, kgVars, nVars>>

\* the for loop is exhausted: the function returns
SpFinish ==
    /\ spState = "running"
    /\ spPos > Len(workList)
    /\ spState' = "done"
    /\ UNCHANGED <<sbVars, cdcVars, lfVars, deleted, dbVars, workList, spPos, attempted, spError, spCreds, notFound, tx,
                   kgVars, nVars>>

SpReset ==
    /\ spState' = "idle"
    /\ workList' = <<>>
    /\ spPos' = 1
    /\ attempted' = {}
    /\ spError' = "none"
    /\ spCreds' = TRUE
    /\ notFound' = {}
    /\ tx' = <<>>

\* the process ends
SpExit ==
    /\ spState \in {"done", "raised", "killed"}
    /\ SpReset
    /\ UNCHANGED <<sbVars, cdcVars, lfVars, deleted, dbVars, kgVars, nVars>>

\* Mutant of SpKill: the INSERTs executed so far stay in the database
SpKillKeepsExecutedInserts ==
    /\ spState = "running"
    /\ songs' = IF tx # <<>>
                THEN InsertSong(songs, tx[1].track_info, tx[1].scraped_song_id)
                ELSE songs
    /\ saf' = IF tx # <<>> /\ tx[1].inserted = 2
              THEN InsertFeatures(saf, Len(songs) + 1, tx[1].track_info.features)
              ELSE saf
    /\ spState' = "killed"
    /\ tx' = <<>>
    /\ UNCHANGED <<sbVars, cdcVars, lfVars, deleted, artists, scraped, workList, spPos, attempted, spError, spCreds, notFound,
                   kgVars, nVars>>

\* the process is terminated during a run: the open transaction is rolled back
SpKill ==
    /\ spState = "running"
    /\ spState' = "killed"
    /\ tx' = <<>>
    /\ UNCHANGED <<sbVars, cdcVars, lfVars, deleted, dbVars, workList, spPos, attempted, spError, spCreds, notFound,
                   kgVars, nVars>>

(***************************************************************************)
(* kaggle_merge.py: load_kaggle_audio, load_project_songs,                 *)
(* merge_kaggle_with_db_songs, update_spotify_audiofeatures                *)
(***************************************************************************)
load_kaggle_audio(file) ==
    [i \in 1..Len(file) |->
        file[i] @@ [track_name_norm |-> normalize_title(file[i].track_name),
                    track_artist_norm |-> normalize_artist(file[i].track_artist)]]

\* Songs joined to ScrapedSongs, one row per Songs row
load_project_songs ==
    [s \in 1..Len(songs) |->
        LET ss == scraped[songs[s].scraped_song_id]
        IN  [song_id |-> s,
             song_title_norm |-> normalize_title(ss.song_title),
             artist_name_norm |-> normalize_artist(artists[ss.artist_id])]]

MergedRow(song_id, pop, f) == [song_id |-> song_id, track_popularity |-> pop] @@ f

RECURSIVE MatchesOf(_, _)
MatchesOf(song, kaggle_df) ==
    IF kaggle_df = <<>> THEN <<>>
    ELSE LET k == Head(kaggle_df)
             rest == MatchesOf(song, Tail(kaggle_df))
         IN  IF /\ k.track_name_norm = song.song_title_norm
                /\ k.track_artist_norm = song.artist_name_norm
             THEN <<MergedRow(song.song_id, k.track_popularity, k.features)>> \o rest
             ELSE rest

\* songs_df.merge(kaggle_df, how="left"): every song, once per matching
\* reference row in file order, or once with NaN when none matches
RECURSIVE merge_kaggle_with_db_songs(_, _)
merge_kaggle_with_db_songs(kaggle_df, songs_df) ==
    IF songs_df = <<>> THEN <<>>
    ELSE LET song == Head(songs_df)
             m == MatchesOf(song, kaggle_df)
             rows == IF m = <<>>
                     THEN <<MergedRow(song.song_id, NULL, Measures(NULL, NULL, NULL))>>
                     ELSE m
         IN  rows \o merge_kaggle_with_db_songs(kaggle_df, Tail(songs_df))

\* Mutant of IsNa: the null-valence guard is lost
IsNaNever(v) == FALSE

\* pd.isna
IsNa(v) == v = NULL

\* Mutant of UpdateFeatures: an INSERT in place of the UPDATE
InsertInsteadOfUpdate(tbl, row) ==
    Append(tbl, [song_id |-> row.song_id, valence |-> row.valence, energy |-> row.energy,
                 danceability |-> row.danceability, tempo |-> row.tempo,
                 acousticness |-> row.acousticness,
                 instrumentalness |-> row.instrumentalness])

\* UPDATE SpotifyAudioFeatures SET ... WHERE song_id = ?
UpdateFeatures(tbl, row) ==
    [i \in 1..Len(tbl) |->
        IF tbl[i].song_id = row.song_id
        THEN [tbl[i] EXCEPT !.valence = row.valence,
                            !.energy = row.energy,
                            !.danceability = row.danceability,
                            !.tempo = row.tempo,
                            !.acousticness = row.acousticness,
                            !.instrumentalness = row.instrumentalness]
        ELSE tbl[i]]

\* one iteration of the iterrows loop
ApplyRow(tbl, row) == IF IsNa(row.valence) THEN tbl ELSE UpdateFeatures(tbl, row)

\* the whole iterrows loop
RECURSIVE update_spotify_audiofeatures(_, _)
update_spotify_audiofeatures(tbl, merged_df) ==
    IF merged_df = <<>> THEN tbl
    ELSE update_spotify_audiofeatures(ApplyRow(tbl, Head(merged_df)), Tail(merged_df))

KgLoadAndMerge(file) ==
    /\ AllIdle
    /\ merged' = merge_kaggle_with_db_songs(load_kaggle_audio(file), load_project_songs)
    /\ kgState' = "updating"
    /\ kgPos' = 1
    /\ UNCHANGED <<sbVars, cdcVars, lfVars, deleted, dbVars, spVars, nVars>>

KgRow ==
    /\ kgState = "updating"
    /\ kgPos <= Len(merged)
    /\ saf' = ApplyRow(saf, merged[kgPos])
    /\ kgPos' = kgPos + 1
    /\ UNCHANGED <<sbVars, cdcVars, lfVars, deleted, artists, scraped, songs, spVars, kgState, merged, nVars>>

KgCommit ==
    /\ kgState = "updating"
    /\ kgPos > Len(merged)
    /\ kgState' = "done"
    /\ UNCHANGED <<sbVars, cdcVars, lfVars, deleted, dbVars, spVars, merged, kgPos, nVars>>

\* the process ends
KgExit ==
    /\ kgState = "done"
    /\ kgState' = "idle"
    /\ merged' = <<>>
    /\ kgPos' = 1
    /\ UNCHANGED <<sbVars, cdcVars, lfVars, deleted, dbVars, spVars, nVars>>

(***************************************************************************)
(* db_setup.py: main                                                       *)
(***************************************************************************)
DbSetupMain ==
    /\ AllIdle
    /\ schema' = CreateIfNotExists(schema, DbSetupTables)
    /\ UNCHANGED <<sbVars, dbVars, spVars, kgVars, nVars, lfVars, deleted,
                   cdcRaw, mht, mhtLast, cdcState, cdcError>>

(***************************************************************************)
(* cdc_api.py: fetch_cdc_raw, store_cdc_raw, get_cdc_mental_health,        *)
(* store_mental_health, main                                               *)
(***************************************************************************)
TrackedIndicators == {"Symptoms of Anxiety Disorder", "Symptoms of Depressive Disorder"}

\* a row of the feed; the key "value" may be missing
FeedRow(group, indicator, date) ==
    [group |-> group, state |-> "United States", indicator |-> indicator,
     time_period_start_date |-> date]

\* rows the feed may hold: a week measured twice, a second week, a row of
\* another group
FeedRows ==
    { FeedRow("National Estimate", "Symptoms of Anxiety Disorder", <<"1", "T", "0">>)
          @@ [value |-> <<"7">>],
      FeedRow("National Estimate", "Symptoms of Anxiety Disorder", <<"1", "T", "0">>)
          @@ [value |-> <<"8">>],
      FeedRow("National Estimate", "Symptoms of Depressive Disorder", <<"2", "T", "0">>)
          @@ [value |-> <<"7">>],
      FeedRow("By Age", "Symptoms of Anxiety Disorder", <<"1", "T", "0">>)
          @@ [value |-> <<"7">>] }

\* and the rows a parser passes over or stores without value: a value that
\* is no number, a row without value, a row of another indicator
FeedRowsWithRejects ==
    FeedRows \cup
    { FeedRow("National Estimate", "Symptoms of Depressive Disorder", <<"2", "T", "0">>)
          @@ [value |-> <<"x">>],
      FeedRow("National Estimate", "Symptoms of Depressive Disorder", <<"1", "T", "0">>),
      FeedRow("National Estimate", "Other", <<"2", "T", "0">>) @@ [value |-> <<"7">>] }

\* row.get("value") is not None
HasValue(row) == "value" \in DOMAIN row

\* float(value_str) succeeds: over the characters of FeedRows, on a
\* non-empty text of digits
IsNumber(t) == t # <<>> /\ AllDigits(t)

\* str.split("T")[0]
BeforeT(t) ==
    LET ts == {i \in DOMAIN t : t[i] = "T"}
    IN  IF ts = {} THEN t ELSE SubSeq(t, 1, Min(ts) - 1)

\* the "$limit" parameter of the request
Limited(data, limit) == SubSeq(data, 1, IF Len(data) < limit THEN Len(data) ELSE limit)

\* the loop of fetch_cdc_raw over the rows the request returned
RECURSIVE RawRows(_)
RawRows(data) ==
    IF data = <<>> THEN <<>>
    ELSE LET row == Head(data)
             rest == RawRows(Tail(data))
         IN  IF row.indicator \notin TrackedIndicators THEN rest
             ELSE IF HasValue(row) /\ ~IsNumber(row.value) THEN rest
             ELSE <<[group_name |-> row.group,
                     state |-> row.state,
                     indicator |-> row.indicator,
                     time_period_start_date |-> BeforeT(row.time_period_start_date),
                     value |-> IF HasValue(row) THEN ToInt(row.value) ELSE NULL]>> \o rest

fetch_cdc_raw(data, limit) == RawRows(Limited(data, limit))

RawColumns == {"group_name", "state", "indicator", "time_period_start_date", "value"}

\* executemany("INSERT INTO CDCRaw (...) VALUES (...)", raw_rows)
store_cdc_raw(tbl, raw_rows) == tbl \o raw_rows

\* one iteration of the loop of get_cdc_mental_health; weeks is the dict,
\* as the set of its values
WeekStep(weeks, row) ==
    IF \/ row.group # "National Estimate"
       \/ row.state # "United States"
       \/ row.indicator \notin TrackedIndicators
       \/ row.time_period_start_date = <<>>
    THEN weeks
    ELSE LET week == BeforeT(row.time_period_start_date)
             known == IF \E r \in weeks : r.week = week THEN weeks
                      ELSE weeks \cup {[week |-> week, anxiety_percent |-> NULL,
                                        depression_percent |-> NULL]}
             value == IF HasValue(row) THEN ToInt(row.value) ELSE NULL
         IN  IF HasValue(row) /\ ~IsNumber(row.value) THEN known
             ELSE { IF r.week # week THEN r
                    ELSE IF row.indicator = "Symptoms of Anxiety Disorder"
                         THEN [r EXCEPT !.anxiety_percent = value]
                         ELSE [r EXCEPT !.depression_percent = value] : r \in known }

RECURSIVE WeeksOf(_, _)
WeeksOf(weeks, data) ==
    IF data = <<>> THEN weeks ELSE WeeksOf(WeekStep(weeks, Head(data)), Tail(data))

\* order of the week texts, all of one length
RECURSIVE TextLess(_, _)
TextLess(a, b) ==
    /\ a # <<>> /\ b # <<>>
    /\ \/ DigitValue(Head(a)) < DigitValue(Head(b))
       \/ Head(a) = Head(b) /\ TextLess(Tail(a), Tail(b))

\* for week_key in sorted(weeks.keys()), weeks without any value left out
RECURSIVE SortedRecords(_)
SortedRecords(weeks) ==
    IF weeks = {} THEN <<>>
    ELSE LET first == CHOOSE r \in weeks : \A q \in weeks \ {r} : TextLess(r.week, q.week)
             rest == SortedRecords(weeks \ {first})
         IN  IF first.anxiety_percent = NULL /\ first.depression_percent = NULL
             THEN rest
             ELSE <<first>> \o rest

get_cdc_mental_health(data) == SortedRecords(WeeksOf({}, data))

\* Mutant of Upsert: ON CONFLICT(week) DO NOTHING
UpsertKeepsOldRow(tbl, rec) ==
    IF \E i \in DOMAIN tbl : tbl[i].week = rec.week THEN tbl ELSE Append(tbl, rec)

\* INSERT ... ON CONFLICT(week) DO UPDATE SET anxiety_percent = excluded.anxiety_percent,
\* depression_percent = excluded.depression_percent
Upsert(tbl, rec) ==
    IF \E i \in DOMAIN tbl : tbl[i].week = rec.week
    THEN [i \in DOMAIN tbl |->
            IF tbl[i].week = rec.week
            THEN [tbl[i] EXCEPT !.anxiety_percent = rec.anxiety_percent,
                                !.depression_percent = rec.depression_percent]
            ELSE tbl[i]]
    ELSE Append(tbl, rec)

RECURSIVE store_mental_health(_, _)
store_mental_health(tbl, records) ==
    IF records = <<>> THEN tbl
    ELSE store_mental_health(Upsert(tbl, Head(records)), Tail(records))

\* what is known of the stores after records were stored
Remember(last, records) ==
    LET stored == {records[i].week : i \in DOMAIN records}
    IN  {m \in last : m.rec.week \notin stored} \cup
        {[rec |-> records[i], again |-> \E m \in last : m.rec.week = records[i].week] :
            i \in DOMAIN records}

\* create_tables()
CdcCreateTables ==
    /\ AllIdle
    /\ schema' = CreateIfNotExists(schema, CdcApiTables)
    /\ cdcState' = "created"
    /\ UNCHANGED <<sbVars, dbVars, spVars, kgVars, nVars, lfVars, deleted,
                   cdcRaw, mht, mhtLast, cdcError>>

\* Mutant of IndexCreationFails: CREATE UNIQUE INDEX without IF NOT EXISTS
IndexCreationFailsWhenPresent(sch, tbl) ==
    \/ WeekIndex \in sch
    \/ \E i, j \in DOMAIN tbl : i # j /\ tbl[i].week = tbl[j].week

\* CREATE UNIQUE INDEX IF NOT EXISTS fails when it has to build the index
\* over rows that share a week
IndexCreationFails(sch, tbl) ==
    /\ WeekIndex \notin sch
    /\ \E i, j \in DOMAIN tbl : i # j /\ tbl[i].week = tbl[j].week

\* ensure_indexes()
CdcEnsureIndexes ==
    /\ cdcState = "created"
    /\ IF IndexCreationFails(schema, mht)
       THEN /\ cdcState' = "raised"
            /\ cdcError' = "IntegrityError"
            /\ UNCHANGED schema
       ELSE /\ cdcState' = "indexed"
            /\ schema' = schema \cup {WeekIndex}
            /\ UNCHANGED cdcError
    /\ UNCHANGED <<sbVars, dbVars, spVars, kgVars, nVars, lfVars, deleted, cdcRaw, mht, mhtLast>>

\* a request of fetch_cdc_raw or get_cdc_mental_health fails: raise_for_status
CdcFetchRaises ==
    /\ cdcState \in {"indexed", "rawStored"}
    /\ cdcState' = "raised"
    /\ cdcError' = "HTTPError"
    /\ UNCHANGED <<sbVars, dbVars, spVars, kgVars, nVars, lfVars, deleted,
                   schema, cdcRaw, mht, mhtLast>>

\* raw_rows = fetch_cdc_raw(limit=RAW_BATCH_SIZE); store_cdc_raw(raw_rows)
CdcStoreRaw(data) ==
    /\ cdcState = "indexed"
    /\ LET raw_rows == fetch_cdc_raw(data, RAW_BATCH_SIZE)
       IN  IF HasColumns(schema, "CDCRaw", RawColumns)
           THEN /\ Len(cdcRaw) + Len(raw_rows) <= MaxRaw
                /\ cdcRaw' = store_cdc_raw(cdcRaw, raw_rows)
                /\ cdcState' = "rawStored"
                /\ UNCHANGED cdcError
           ELSE /\ cdcState' = "raised"
                /\ cdcError' = "OperationalError"
                /\ UNCHANGED cdcRaw
    /\ UNCHANGED <<sbVars, dbVars, spVars, kgVars, nVars, lfVars, deleted, schema, mht, mhtLast>>

\* records = get_cdc_mental_health(); store_mental_health(records)
CdcStoreMentalHealth(data) ==
    /\ cdcState = "rawStored"
    /\ LET records == get_cdc_mental_health(data)
       IN  IF records = <<>> \/ WeekIndex \in schema
           THEN /\ mht' = store_mental_health(mht, records)
                /\ mhtLast' = Remember(mhtLast, records)
                /\ cdcState' = "done"
                /\ UNCHANGED cdcError
           ELSE /\ cdcState' = "raised"
                /\ cdcError' = "OperationalError"
                /\ UNCHANGED <<mht, mhtLast>>
    /\ UNCHANGED <<sbVars, dbVars, spVars, kgVars, nVars, lfVars, deleted, schema, cdcRaw>>

\* the process ends
CdcExit ==
    /\ cdcState \in {"done", "raised"}
    /\ cdcState' = "idle"
    /\ cdcError' = "none"
    /\ UNCHANGED <<sbVars, dbVars, spVars, kgVars, nVars, lfVars, deleted,
                   schema, cdcRaw, mht, mhtLast>>

(***************************************************************************)
(* lastfm_api.py: get_lastfm_popularity                                    *)
(***************************************************************************)
\* texts Last.fm may give for a count: a number, something else
CountTexts == {<<"5">>, <<"x">>}

\* what resp.json() may be: an error document without "track", or a track
\* whose "listeners" and "playcount" may be missing
LastfmResponses ==
    {[error |-> "6"]} \cup
    { [track |-> [name |-> "n"] @@ l @@ p] :
        l \in {<<>>} \cup {[listeners |-> t] : t \in CountTexts},
        p \in {<<>>} \cup {[playcount |-> t] : t \in CountTexts} }

\* int(text) succeeds: over the characters of CountTexts, on a non-empty
\* text of digits
IsInteger(t) == t # <<>> /\ AllDigits(t)

\* the dict returned, or [found |-> FALSE] for None
get_lastfm_popularity(data) ==
    IF "track" \notin DOMAIN data THEN [found |-> FALSE]
    ELSE LET track == data.track
         IN  IF "listeners" \notin DOMAIN track \/ "playcount" \notin DOMAIN track
             THEN [found |-> FALSE]
             ELSE IF ~IsInteger(track.listeners) \/ ~IsInteger(track.playcount)
             THEN [found |-> FALSE]
             ELSE [found |-> TRUE, listeners |-> ToInt(track.listeners),
                   playcount |-> ToInt(track.playcount)]

(***************************************************************************)
(* lastfm_api.py: populate_lastfm, store_popularity                        *)
(***************************************************************************)
\* the SELECT of populate_lastfm names these tables and columns; sqlite
\* raises OperationalError when one of them is missing
QueryFails(sch) ==
    ~(/\ HasColumns(sch, "Songs", {"song_id", "scraped_song_id"})
      /\ HasColumns(sch, "ScrapedSongs", {"id", "song_title", "artist_id"})
      /\ HasColumns(sch, "Artists", {"artist_id", "artist_name"})
      /\ HasColumns(sch, "Popularity", {"id", "song_id"}))

\* Mutant of NeedingPopularity: the WHERE p.id IS NULL is left out
EverySong(sng, pop) == DOMAIN sng

\* Songs rows with no Popularity row (LEFT JOIN ... WHERE p.id IS NULL)
NeedingPopularity(sng, pop) ==
    {s \in DOMAIN sng : ~\E p \in DOMAIN pop : pop[p].song_id = s}

\* Mutant of SelectRows: the rows with the highest song_id first
RECURSIVE SelectLastRows(_, _)
SelectLastRows(rows, limit) ==
    IF limit = 0 \/ rows = {} THEN <<>>
    ELSE LET last == CHOOSE x \in rows : \A y \in rows : x >= y
         IN  <<last>> \o SelectLastRows(rows \ {last}, limit - 1)

\* LIMIT ? without ORDER BY: the plan sqlite makes for this query scans
\* Songs by rowid and reaches the other tables by key, so the rows come in
\* ascending song_id and the first limit of them are returned
RECURSIVE SelectRows(_, _)
SelectRows(rows, limit) ==
    IF limit = 0 \/ rows = {} THEN <<>>
    ELSE <<Min(rows)>> \o SelectRows(rows \ {Min(rows)}, limit - 1)

\* debug_db(), then the SELECT: the except branch prints and returns
LfStart(limit) ==
    /\ AllIdle
    /\ lfLimit' = limit
    /\ IF QueryFails(schema)
       THEN /\ lfState' = "done"
            /\ lfError' = "printed"
            /\ UNCHANGED <<lfRows, lfPos>>
       ELSE /\ lfRows' = SelectRows(NeedingPopularity(songs, popularity), limit)
            /\ lfState' = "running"
            /\ lfPos' = 1
            /\ lfError' = "none"
    /\ UNCHANGED <<sbVars, dbVars, spVars, kgVars, nVars, cdcVars, deleted, popularity>>

\* Mutant of store_popularity: the row is stored under a song id that is not
\* the one looked up
StorePopularityUnderNextId(tbl, song_id, pop) ==
    Append(tbl, [song_id |-> song_id + 1, listener_count |-> pop.listeners,
                 playcount |-> pop.playcount])

\* INSERT INTO Popularity (song_id, listener_count, playcount); commit
store_popularity(tbl, song_id, pop) ==
    Append(tbl, [song_id |-> song_id, listener_count |-> pop.listeners,
                 playcount |-> pop.playcount])

\* one iteration of the loop: the lookup answers with data
LfLookup(data) ==
    /\ lfState = "running"
    /\ lfPos <= Len(lfRows)
    /\ LET pop == get_lastfm_popularity(data)
       IN  popularity' = IF pop.found
                         THEN store_popularity(popularity, lfRows[lfPos], pop)
                         ELSE popularity
    /\ lfPos' = lfPos + 1
    /\ UNCHANGED <<sbVars, dbVars, spVars, kgVars, nVars, cdcVars, deleted, lfState, lfRows, lfLimit,
                   lfError>>

\* requests.get or resp.json() raises: nothing catches it
LfLookupRaises ==
    /\ lfState = "running"
    /\ lfPos <= Len(lfRows)
    /\ lfState' = "raised"
    /\ lfError' = "RequestException"
    /\ UNCHANGED <<sbVars, dbVars, spVars, kgVars, nVars, cdcVars, deleted, popularity, lfRows, lfPos,
                   lfLimit>>

\* the for loop is exhausted: the function returns
LfFinish ==
    /\ lfState = "running"
    /\ lfPos > Len(lfRows)
    /\ lfState' = "done"
    /\ UNCHANGED <<sbVars, dbVars, spVars, kgVars, nVars, cdcVars, deleted, popularity, lfRows, lfPos,
                   lfLimit, lfError>>

\* the process ends
LfExit ==
    /\ lfState \in {"done", "raised"}
    /\ lfState' = "idle"
    /\ lfRows' = <<>>
    /\ lfPos' = 1
    /\ lfLimit' = 0
    /\ lfError' = "none"
    /\ UNCHANGED <<sbVars, dbVars, spVars, kgVars, nVars, cdcVars, deleted, popularity>>

(***************************************************************************)
(* db_setup.py: ON DELETE CASCADE, under PRAGMA foreign_keys = ON          *)
(***************************************************************************)
Live(name, tbl) == DOMAIN tbl \ deleted[name]

\* Mutant of ReferencingRows: the delete does not reach the referencing rows
NoReferencingRows(tbl, key, ids) == {}

\* rows of tbl whose foreign key is one of ids
ReferencingRows(tbl, key, ids) == {i \in DOMAIN tbl : tbl[i][key] \in ids}

\* DELETE FROM ScrapedSongs WHERE id = ?: the Songs rows of the entry go
\* with it, and with them their SpotifyAudioFeatures and Popularity rows
DeleteScrapedSong(id) ==
    /\ AllIdle
    /\ id \in Live("ScrapedSongs", scraped)
    /\ LET gone == ReferencingRows(songs, "scraped_song_id", {id})
       IN  deleted' =
             [ScrapedSongs |-> deleted.ScrapedSongs \cup {id},
              Songs |-> deleted.Songs \cup gone,
              SpotifyAudioFeatures |->
                  deleted.SpotifyAudioFeatures \cup ReferencingRows(saf, "song_id", gone),
              Popularity |-> deleted.Popularity \cup ReferencingRows(popularity, "song_id", gone)]
    /\ UNCHANGED <<sbVars, dbVars, spVars, kgVars, nVars, cdcVars, lfVars>>

(***************************************************************************)
(* The parsers of the numeric fields, each on its own input                *)
(***************************************************************************)
InitFetch ==
    /\ schema = DbSetupTables
    /\ EmptyTables
    /\ NoProcess
    /\ pages = NoPages
    /\ \/ nText \in SeqsUpTo(FeedRowsWithRejects, MaxFeed) /\ nFn = "feed"
       \/ nText \in LastfmResponses /\ nFn = "response"
    /\ nOut = <<>>

FetchRaw ==
    /\ nFn = "feed"
    /\ nOut' = fetch_cdc_raw(nText, RAW_BATCH_SIZE)
    /\ nFn' = "raw_rows"
    /\ UNCHANGED <<sbVars, dbVars, spVars, kgVars, cdcVars, lfVars, deleted, nText>>

FetchPopularity ==
    /\ nFn = "response"
    /\ nOut' = get_lastfm_popularity(nText)
    /\ nFn' = "pop"
    /\ UNCHANGED <<sbVars, dbVars, spVars, kgVars, cdcVars, lfVars, deleted, nText>>

NextFetch == FetchRaw \/ FetchPopularity

SpecFetch == InitFetch /\ [][NextFetch]_vars

(***************************************************************************)
(* The pipeline on an empty database                                       *)
(***************************************************************************)
Init ==
    /\ schema = DbSetupTables
    /\ EmptyTables
    /\ NoProcess
    /\ pages = NoPages
    /\ nText = <<>> /\ nOut = <<>> /\ nFn = "none"

Next ==
    \/ \E l \in SeqsUpTo(ScrapedInputs, 2) \ {<<>>} : store_scraped_songs(l)
    \/ \E limit \in (1..MaxLimit) \cup {NoLimit}, creds \in BOOLEAN : SpStart(limit, creds)
    \/ SpSkipExisting
    \/ SpNoCredentials
    \/ SpNotFound
    \/ \E err \in LookupErrors : SpLookupRaises(err)
    \/ \E track_info \in SpotifyResults : SpStore(track_info)
    \/ SpInsertFeatures
    \/ SpCommit
    \/ SpFinish
    \/ SpExit
    \/ SpKill
    \/ \E file \in SeqsUpTo(KaggleRows, MaxKaggle) : KgLoadAndMerge(file)
    \/ KgRow
    \/ KgCommit
    \/ KgExit

Spec == Init /\ [][Next]_vars

(***************************************************************************)
(* The bulk merge on a database whose Songs rows need not have a           *)
(* SpotifyAudioFeatures row: the schema of db_setup.create_tables links    *)
(* the two tables by a foreign key only, and kaggle_merge.py opens         *)
(* whatever afa.db lies next to it.                                        *)
(***************************************************************************)
FeatureRowsWithoutDuplicates ==
    { t \in SeqsUpTo({[song_id |-> s] @@ f : s \in 1..2,
                         f \in {Measures(NULL, NULL, NULL), Measures(1, 1, 1)}}, 2) :
        \A i, j \in DOMAIN t : t[i].song_id = t[j].song_id => i = j }

InitUpsert ==
    /\ artists = <<(<<"x">>)>>
    /\ scraped = [i \in 1..2 |-> [song_title |-> <<"A">>, artist_id |-> 1,
                                  genre |-> NULL, chart_date |-> "2020-04-25"]]
    /\ songs = [i \in 1..2 |-> [scraped_song_id |-> i, spotify_track_id |-> "trk",
                                genre |-> NULL, popularity |-> 80, release_year |-> 2021]]
    /\ saf \in FeatureRowsWithoutDuplicates
    /\ schema = DbSetupTables
    /\ popularity = <<>> /\ cdcRaw = <<>> /\ mht = <<>> /\ mhtLast = {}
    /\ deleted = NoRowsDeleted
    /\ NoProcess
    /\ pages = NoPages
    /\ nText = <<>> /\ nOut = <<>> /\ nFn = "none"

NextUpsert ==
    \/ \E file \in SeqsUpTo(KaggleRows, MaxKaggle) : KgLoadAndMerge(file)
    \/ KgRow
    \/ KgCommit
    \/ KgExit

SpecUpsert == InitUpsert /\ [][NextUpsert]_vars

(***************************************************************************)
(* The setup and CDC stages on a new database file                         *)
(***************************************************************************)
InitSetup ==
    /\ schema = {}
    /\ EmptyTables
    /\ NoProcess
    /\ pages = NoPages
    /\ nText = <<>> /\ nOut = <<>> /\ nFn = "none"

NextSetup ==
    \/ DbSetupMain
    \/ CdcCreateTables
    \/ CdcEnsureIndexes
    \/ CdcFetchRaises
    \/ \E data \in SeqsUpTo(FeedRows, MaxFeed) : CdcStoreRaw(data)
    \/ \E data \in SeqsUpTo(FeedRows, MaxFeed) : CdcStoreMentalHealth(data)
    \/ CdcExit
    \/ \E limit \in 1..MaxLimit : LfStart(limit)
    \/ LfFinish
    \/ LfExit

SpecSetup == InitSetup /\ [][NextSetup]_vars

(***************************************************************************)
(* The scrape store, the resolver and the Last.fm stage on the tables of   *)
(* db_setup.py, up to and through deletions of ScrapedSongs rows; the      *)
(* stages are followed as long as no row has been deleted.                 *)
(***************************************************************************)
NoneDeleted == deleted = NoRowsDeleted

NextPop ==
    \/ \E l \in SeqsUpTo(ScrapedInputs, 2) \ {<<>>} : NoneDeleted /\ store_scraped_songs(l)
    \/ \E limit \in (1..MaxLimit) \cup {NoLimit} : NoneDeleted /\ SpStart(limit, TRUE)
    \/ NoneDeleted /\ SpSkipExisting
    \/ NoneDeleted /\ SpNotFound
    \/ \E track_info \in SpotifyResults : NoneDeleted /\ SpStore(track_info)
    \/ NoneDeleted /\ SpInsertFeatures
    \/ NoneDeleted /\ SpCommit
    \/ NoneDeleted /\ SpFinish
    \/ NoneDeleted /\ SpExit
    \/ \E limit \in 1..MaxLimit : NoneDeleted /\ LfStart(limit)
    \/ \E data \in LastfmResponses : NoneDeleted /\ LfLookup(data)
    \/ NoneDeleted /\ LfLookupRaises
    \/ NoneDeleted /\ LfFinish
    \/ NoneDeleted /\ LfExit
    \/ \E id \in 1..MaxScraped : DeleteScrapedSong(id)

SpecPop == Init /\ [][NextPop]_vars

(***************************************************************************)
(* The scrape store alone, on chart entries of several artists             *)
(***************************************************************************)
NextScrape ==
    \E l \in SeqsUpTo(ScrapedInputsByArtist, 2) \ {<<>>} : store_scraped_songs(l)

SpecScrape == Init /\ [][NextScrape]_vars

(***************************************************************************)
(* scrape_billboard.main run again and again on a new database, the chart  *)
(* pages staying as they are                                               *)
(***************************************************************************)
InitChart ==
    /\ schema = DbSetupTables
    /\ EmptyTables
    /\ NoProcess
    /\ pages \in ChartPages
    /\ nText = <<>> /\ nOut = <<>> /\ nFn = "none"

NextChart ==
    \/ SbStart
    \/ SbWeek
    \/ SbScrapeRaises
    \/ SbFinish
    \/ SbExit

SpecChart == InitChart /\ [][NextChart]_vars

(***************************************************************************)
(* The bulk merge on songs and reference rows whose title or artist has    *)
(* no character of [a-z0-9]                                                *)
(***************************************************************************)
SymbolInputs ==
    { [song_title |-> t, artist_name |-> a, chart_date |-> "2020-04-25", genre |-> NULL] :
        t \in {<<"A">>, <<"?">>}, a \in {<<"x">>, <<"!">>} }

SymbolRows ==
    { [track_name |-> n, track_artist |-> a, track_popularity |-> 90,
       features |-> Measures(2, 2, 2)] :
        n \in {<<"a">>, <<"#">>}, a \in {<<"X">>, <<"$">>} }

InitSymbols ==
    /\ \E list \in SeqsUpTo(SymbolInputs, MaxScraped) \ {<<>>} :
          LET r == StoreAll(<<>>, <<>>, list)
              track_info == CHOOSE t \in SpotifyResults : t.features = Measures(1, 1, 1)
          IN  /\ artists = r[1]
              /\ scraped = r[2]
              /\ songs = [i \in DOMAIN list |-> InsertSong(<<>>, track_info, i)[1]]
              /\ saf = [i \in DOMAIN list |-> InsertFeatures(<<>>, i, track_info.features)[1]]
    /\ schema = DbSetupTables
    /\ popularity = <<>> /\ cdcRaw = <<>> /\ mht = <<>> /\ mhtLast = {}
    /\ deleted = NoRowsDeleted
    /\ NoProcess
    /\ pages = NoPages
    /\ nText = <<>> /\ nOut = <<>> /\ nFn = "none"

NextSymbols ==
    \/ \E file \in SeqsUpTo(SymbolRows, MaxKaggle) : KgLoadAndMerge(file)
    \/ KgRow
    \/ KgCommit
    \/ KgExit

SpecSymbols == InitSymbols /\ [][NextSymbols]_vars

(***************************************************************************)
(* The Last.fm stage alone, run again and again with the limit of          *)
(* __main__, on a database the scrape and resolver stages filled; Last.fm  *)
(* gives the same answer for the same title every time                     *)
(***************************************************************************)
\* the title the SELECT of populate_lastfm returns for a Songs row
TitleOf(song_id) == scraped[songs[song_id].scraped_song_id].song_title

\* the answer of track.getInfo: the track "A" is known, any other is not
LastfmAnswer(title) ==
    IF title = <<"A">>
    THEN [track |-> [name |-> "n", listeners |-> <<"5">>, playcount |-> <<"5">>]]
    ELSE [error |-> "6"]

InitLf ==
    /\ \E list \in SeqsUpTo(ScrapedInputs, MaxLfSongs) \ {<<>>}, track_info \in SpotifyResults :
          LET r == StoreAll(<<>>, <<>>, list)
          IN  /\ artists = r[1]
              /\ scraped = r[2]
              /\ songs = [i \in DOMAIN list |-> InsertSong(<<>>, track_info, i)[1]]
              /\ saf = [i \in DOMAIN list |-> InsertFeatures(<<>>, i, track_info.features)[1]]
    /\ schema = DbSetupTables
    /\ popularity = <<>> /\ cdcRaw = <<>> /\ mht = <<>> /\ mhtLast = {}
    /\ deleted = NoRowsDeleted
    /\ NoProcess
    /\ pages = NoPages
    /\ nText = <<>> /\ nOut = <<>> /\ nFn = "none"

LfLookupAnswer ==
    /\ lfState = "running"
    /\ lfPos <= Len(lfRows)
    /\ LfLookup(LastfmAnswer(TitleOf(lfRows[lfPos])))

NextLf ==
    \/ LfStart(MAIN_LIMIT)
    \/ LfLookupAnswer
    \/ LfFinish
    \/ LfExit

\* the stage is started again after every run, and a run that is started
\* goes on to its end
SpecLf == InitLf /\ [][NextLf]_vars /\ WF_vars(NextLf)

(***************************************************************************)
(* Properties                                                              *)
(***************************************************************************)
SongsOf(scraped_id) == {s \in DOMAIN songs : songs[s].scraped_song_id = scraped_id}
FeatureRowsOf(song_id) == {i \in DOMAIN saf : saf[i].song_id = song_id}
MergedRowsOf(song_id) == {i \in DOMAIN merged : merged[i].song_id = song_id}
MeasureNames == {"valence", "energy", "danceability", "tempo", "acousticness",
                 "instrumentalness"}
SameMeasures(a, b) == \A m \in MeasureNames : a[m] = b[m]

\* C1: however many resolver runs have happened, and whatever the lookups
\* returned, every ScrapedSongs row is referenced by at most one Songs row.
C1_AtMostOneSongPerScrapedRow ==
    \A id \in DOMAIN scraped : Cardinality(SongsOf(id)) <= 1

\* a later run has met a row resolved by an earlier run and passed over it
C1_Witness ==
    /\ spState = "running"
    /\ spPos > 1
    /\ Existing(songs, workList[1])
    /\ workList[1] \notin attempted

\* C2: in every state reached by resolver runs and bulk merges, a Songs row
\* has at most one SpotifyAudioFeatures row.
C2_AtMostOneFeatureRowPerSong ==
    \A s \in DOMAIN songs : Cardinality(FeatureRowsOf(s)) <= 1

\* a bulk merge has applied a reference row to one of several resolved songs
C2_Witness ==
    /\ kgState = "done"
    /\ Len(songs) >= 2
    /\ \E i \in DOMAIN merged : merged[i].valence # NULL

\* C3: the work list selected at the start of a resolver run holds no
\* ScrapedSongs id that already has a Songs row.
C3_WorkListHasNoResolvedRow ==
    (spState = "running" /\ spPos = 1) =>
        \A i \in DOMAIN workList : ~Existing(songs, workList[i])

\* C4: a resolver run advances the frontier: a run that ends without having
\* attempted any lookup leaves no ScrapedSongs row unresolved (such a run
\* changes nothing, so every later run with the same limit repeats it and
\* the rows it left are never attempted).
C4_RunAdvancesFrontier ==
    (spState = "done" /\ attempted = {}) =>
        \A id \in DOMAIN scraped : Existing(songs, id)

\* C5: the step of the bulk merge that handles a merged row whose valence is
\* null leaves SpotifyAudioFeatures as it was.
C5_NullValenceRowChangesNothing ==
    [][(/\ kgState = "updating"
        /\ kgPos <= Len(merged)
        /\ merged[kgPos].valence = NULL
        /\ kgPos' = kgPos + 1) => saf' = saf]_vars

\* a null-valence row has been handled for a song whose stored valence is set
C5_Witness ==
    /\ kgState = "updating"
    /\ kgPos > 1
    /\ merged[kgPos - 1].valence = NULL
    /\ \E i \in FeatureRowsOf(merged[kgPos - 1].song_id) : saf[i].valence # NULL

\* C6: once update_spotify_audiofeatures has run over the merged rows,
\* running it again over the same rows changes no table.
C6_MergeTwiceSameAsOnce ==
    kgState = "done" => update_spotify_audiofeatures(saf, merged) = saf

\* a merge has applied two reference rows with different valences to one song
C6_Witness ==
    /\ kgState = "done"
    /\ \E i, j \in DOMAIN merged :
        /\ i < j
        /\ merged[i].song_id = merged[j].song_id
        /\ merged[i].valence # NULL
        /\ merged[j].valence # NULL
        /\ merged[i].valence # merged[j].valence

\* C7: after a bulk merge, the measures stored for a song that reference rows
\* matched (all with a valence) are those of a matching reference row of
\* highest track_popularity, whatever the order of the rows in the file.
C7_HighestPopularityRowWins ==
    kgState = "done" =>
        \A s \in DOMAIN songs :
            LET rows == {i \in MergedRowsOf(s) : merged[i].track_popularity # NULL}
            IN  (rows # {} /\ \A i \in rows : merged[i].valence # NULL) =>
                    \E i \in rows :
                        /\ \A j \in rows :
                            merged[j].track_popularity <= merged[i].track_popularity
                        /\ \A k \in FeatureRowsOf(s) : SameMeasures(saf[k], merged[i])

C9_NormalizeIdempotent ==
    /\ nFn = "title" => normalize_title(nOut) = nOut
    /\ nFn = "artist" => normalize_artist(nOut) = nOut

\* C10: a lookup that fails with a network or HTTP error does not end the
\* resolver run: the run goes on to the next item and ends normally.
C10_LookupFailureDoesNotEndRun ==
    spError = "SpotifyException" => spState \in {"running", "done"}


\* C11: when the lookup finds no track for a chart entry, no Songs row (and
\* so no SpotifyAudioFeatures row) is created for the entry, no error ends
\* the run there, and the loop has moved on to the next row.
C11_NotFoundCreatesNothing ==
    \A i \in DOMAIN workList :
        workList[i] \in notFound =>
            /\ SongsOf(workList[i]) = {}
            /\ \A f \in DOMAIN saf : saf[f].song_id \in DOMAIN songs =>
                   songs[saf[f].song_id].scraped_song_id # workList[i]
            /\ spPos > i

\* an entry was not found and the entry after it was resolved in the same run
C11_Witness ==
    \E i, j \in DOMAIN workList :
        /\ i < j
        /\ workList[i] \in notFound
        /\ SongsOf(workList[j]) # {}
        /\ workList[j] \in attempted


\* C12: for every release_date the stored release year is the number written
\* by the first four characters when these are all digits and null when the
\* date is empty or its first four characters are not all digits; the parse
\* never raises.
C12_ReleaseYearFromFirstFour ==
    nFn = "year" =>
        LET four == SubSeq(nText, 1, IF Len(nText) < 4 THEN Len(nText) ELSE 4)
        IN  /\ ~nOut.raised
            /\ nOut.value = IF four # <<>> /\ AllDigits(four) THEN ToInt(four) ELSE NULL


\* C17: if the process is terminated at any point of a resolver run, every
\* Songs row of the database has exactly one SpotifyAudioFeatures row (the
\* two inserts of a resolution are committed together or not at all), and
\* the termination leaves the rows committed before it as they were.
C17_TerminationLeavesPairs ==
    /\ [](\A s \in DOMAIN songs : Cardinality(FeatureRowsOf(s)) = 1)
    /\ [][spState' = "killed" => dbVars' = dbVars]_vars

\* the process was terminated while store_spotify_song held an open
\* transaction for the current entry, after an earlier entry was committed
C17_Witness ==
    /\ spState = "killed"
    /\ spPos \in DOMAIN workList
    /\ workList[spPos] \in attempted \ notFound
    /\ SongsOf(workList[spPos]) = {}
    /\ songs # <<>>


\* C19: after any number of store_scraped_songs calls no two Artists rows
\* share an artist_name, an Artists row is never deleted or renamed, and
\* every stored chart entry references the one Artists row that carries its
\* artist name, the row created when the name was first seen.
C19_OneArtistRowPerName ==
    /\ [](\A i, j \in DOMAIN artists : artists[i] = artists[j] => i = j)
    /\ [][/\ Len(artists') >= Len(artists)
          /\ \A i \in DOMAIN artists : artists'[i] = artists[i]
          /\ \A l \in SeqsUpTo(ScrapedInputsByArtist, 2) :
                (scraped' # scraped /\ <<artists', scraped'>> = StoreAll(artists, scraped, l)) =>
                    \A k \in DOMAIN l :
                        LET row == scraped'[Len(scraped) + k]
                        IN  /\ artists'[row.artist_id] = l[k].artist_name
                            /\ \A i \in DOMAIN artists :
                                   artists[i] = l[k].artist_name => row.artist_id = i]_vars

\* a later call stored an entry of an artist seen in an earlier call
C19_Witness ==
    /\ Len(scraped) = 2
    /\ scraped[1].chart_date # scraped[2].chart_date
    /\ scraped[1].artist_id = scraped[2].artist_id
    /\ Len(artists) = 1


\* C13: a numeric field that cannot be parsed is stored as null and its
\* record is kept: every row of the raw batch with a tracked indicator is
\* appended to CDCRaw, with value null when the value is no number; a Last.fm
\* track yields an observation in which a count that is no integer is null.
C13_UnparseableFieldKeptAsNull ==
    /\ nFn = "raw_rows" =>
        LET batch == Limited(nText, RAW_BATCH_SIZE)
            tracked == {i \in DOMAIN batch : batch[i].indicator \in TrackedIndicators}
        IN  /\ Len(nOut) = Cardinality(tracked)
            /\ \A i \in tracked :
                   LET k == Cardinality({j \in tracked : j <= i})
                   IN  nOut[k].value = IF HasValue(batch[i]) /\ IsNumber(batch[i].value)
                                       THEN ToInt(batch[i].value) ELSE NULL
    /\ (nFn = "pop" /\ "track" \in DOMAIN nText) =>
        LET Count(key) == IF key \in DOMAIN nText.track /\ IsInteger(nText.track[key])
                          THEN ToInt(nText.track[key]) ELSE NULL
        IN  /\ nOut.found
            /\ nOut.listeners = Count("listeners")
            /\ nOut.playcount = Count("playcount")

\* C14: running create_tables (of db_setup or of cdc_api) and ensure_indexes
\* on a database that holds rows leaves every row as it was and raises no
\* error.
C14_SetupKeepsRows ==
    [][(\/ cdcState \in {"idle", "created"} /\ cdcState' # cdcState
        \/ schema' # schema) =>
           /\ <<dbVars, popularity, cdcRaw, mht>>' = <<dbVars, popularity, cdcRaw, mht>>
           /\ cdcState' # "raised"]_vars

\* create_tables of both files and ensure_indexes have run on a database
\* whose CDCRaw and MentalHealthTrends hold rows
C14_Witness ==
    /\ cdcState = "indexed"
    /\ cdcRaw # <<>>
    /\ mht # <<>>
    /\ HasColumns(schema, "Artists", {"artist_name"})

\* C15: after any runs of the CDC stage, MentalHealthTrends holds at most
\* one row per week and the row of a week carries the values of the record
\* stored last for that week.
C15_OneRowPerWeekWithLastValues ==
    /\ \A i, j \in DOMAIN mht : mht[i].week = mht[j].week => i = j
    /\ \A m \in mhtLast : \E i \in DOMAIN mht : mht[i] = m.rec

\* a week was stored by two runs
C15_Witness ==
    /\ cdcState = "done"
    /\ \E m \in mhtLast : m.again
    /\ Len(mht) = 2

\* C16: after any runs of the raw ingestion, no two CDCRaw rows share the
\* tuple of group, state, indicator and time period.
C16_RawRowsUniquePerKey ==
    \A i, j \in DOMAIN cdcRaw :
        (/\ cdcRaw[i].group_name = cdcRaw[j].group_name
         /\ cdcRaw[i].state = cdcRaw[j].state
         /\ cdcRaw[i].indicator = cdcRaw[j].indicator
         /\ cdcRaw[i].time_period_start_date = cdcRaw[j].time_period_start_date) => i = j


\* C18: in every reachable state every ScrapedSongs row references an
\* existing Artists row, every Songs row an existing ScrapedSongs row, and
\* every SpotifyAudioFeatures and Popularity row an existing Songs row; so
\* after a ScrapedSongs row is deleted its Songs row is gone, and with it
\* the SpotifyAudioFeatures and Popularity rows of that song.
C18_ReferentialIntegrity ==
    /\ \A i \in Live("ScrapedSongs", scraped) : scraped[i].artist_id \in DOMAIN artists
    /\ \A s \in Live("Songs", songs) :
           songs[s].scraped_song_id \in Live("ScrapedSongs", scraped)
    /\ \A f \in Live("SpotifyAudioFeatures", saf) : saf[f].song_id \in Live("Songs", songs)
    /\ \A p \in Live("Popularity", popularity) :
           popularity[p].song_id \in Live("Songs", songs)

\* a chart entry with a song, features and a popularity row was deleted
\* while another entry with all its rows stayed
C18_Witness ==
    /\ deleted.ScrapedSongs # {}
    /\ deleted.Songs # {}
    /\ deleted.SpotifyAudioFeatures # {}
    /\ deleted.Popularity # {}
    /\ Live("Songs", songs) # {}
    /\ Live("Popularity", popularity) # {}

\* C20: a setup-time failure ends the run by raising, before any item is
\* processed and without a row written: a resolver run without credentials
\* does not return normally, and raises at the first row; a Last.fm run on
\* a database without the table Songs does not return normally.
C20_SetupFailureRaises ==
    /\ spState = "done" => spCreds
    /\ (spState = "raised" /\ ~spCreds) => spPos = 1 /\ spError = "RuntimeError"
    /\ lfState = "done" => HasColumns(schema, "Songs", {"song_id"})


C26_FoundSongsEventuallyStored ==
    \A s \in 1..MaxLfSongs :
        [](s \in DOMAIN songs /\ get_lastfm_popularity(LastfmAnswer(TitleOf(s))).found
              => <>(\E p \in DOMAIN popularity : popularity[p].song_id = s))


\* C25: populate_lastfm appends a Popularity row only for a song it selected,
\* which had no Popularity row, and never changes or removes an existing
\* row; after any number of runs each Songs row has at most one Popularity
\* row.
C25_AtMostOnePopularityRowPerSong ==
    /\ [](\A p, q \in DOMAIN popularity :
              popularity[p].song_id = popularity[q].song_id => p = q)
    /\ [][popularity' # popularity =>
             /\ lfState = "running"
             /\ Len(popularity') = Len(popularity) + 1
             /\ SubSeq(popularity', 1, Len(popularity)) = popularity
             /\ popularity'[Len(popularity')].song_id = lfRows[lfPos]
             /\ ~\E p \in DOMAIN popularity : popularity[p].song_id = lfRows[lfPos]]_vars

\* a run that began when a song had its Popularity row has stored the row
\* of another song
C25_Witness ==
    /\ lfState = "running"
    /\ lfPos > Len(lfRows)
    /\ Len(lfRows) = 1
    /\ Len(popularity) = 2
    /\ popularity[2].song_id = lfRows[1]


\* the split pattern of normalize_artist, of normalize_title, matches
\* nowhere in the lowered text
NoArtistMarkerIn(t) == \A i \in 1..Len(t) : ~ArtistMarker(Lower(t), i)
NoTitleMarkerIn(t) == \A i \in 1..Len(t) : ~TitleMarker(Lower(t), i)

IsSuffix(u, t) == Len(u) <= Len(t) /\ SubSeq(t, Len(t) - Len(u) + 1, Len(t)) = u

\* the title key of a + m + b, for m " and " or " & " and no feat/ft/featuring
\* in the text, ends with the key of b
TitleKeepsWordsAfterAnd ==
    (/\ nFn = "title"
     /\ nText[2] \in {<<" ">> \o And \o <<" ">>, <<" ", "&", " ">>}
     /\ NoTitleMarkerIn(nText[1] \o nText[2] \o nText[3]))
        => IsSuffix(normalize_title(nText[3]), nOut[1])

\* C22: for every artist text a containing no marker, every marker m among
\* " feat. ", " ft. ", " featuring ", " and ", " & " and every text b,
\* normalize_artist(a + m + b) = normalize_artist(a); normalize_title keeps
\* the words after "and" and "&" in its key.
C22_BillingCollapsesToFirstArtist ==
    /\ (nFn = "artist" /\ NoArtistMarkerIn(nText[1])) => nOut[1] = nOut[2]
    /\ TitleKeepsWordsAfterAnd

\* C22 amended: the same for every a in which, followed by a space, the
\* split pattern matches nowhere (a does not end in the word "and").
C22_BillingCollapsesUnlessAndEndsFirst ==
    /\ (nFn = "artist" /\ NoArtistMarkerIn(nText[1] \o <<" ">>)) => nOut[1] = nOut[2]
    /\ TitleKeepsWordsAfterAnd

\* the billing "a and B" has been cut to the key of "a"
C22_Witness ==
    /\ nFn = "artist"
    /\ nText = <<(<<"a">>), <<" ">> \o And \o <<" ">>, <<"B">>>>
    /\ nOut = <<(<<"a">>), <<"a">>>>


\* C23: when an applied reference row (non-null valence) has a null value
\* for another measure, the stored value of that measure is kept: the
\* update writes a stored field only from a non-null incoming value.
C23_NullMeasureKeepsStoredValue ==
    [][(/\ kgState = "updating"
        /\ kgPos <= Len(merged)
        /\ kgPos' = kgPos + 1
        /\ ~IsNa(merged[kgPos].valence))
          => \A i \in DOMAIN saf, f \in MeasureNames :
                 (saf[i].song_id = merged[kgPos].song_id /\ merged[kgPos][f] = NULL)
                     => saf'[i][f] = saf[i][f]]_vars


\* C27: a song receives measures only from a reference row whose title and
\* artist keys equal the keys of the song and are not empty: no row is
\* applied to a song whose title and artist both normalize to the empty
\* string.
C27_EmptyKeysNeverMatch ==
    [][(/\ kgState = "updating"
        /\ kgPos <= Len(merged)
        /\ kgPos' = kgPos + 1
        /\ saf' # saf)
          => LET song == load_project_songs[merged[kgPos].song_id]
             IN  ~(song.song_title_norm = <<>> /\ song.artist_name_norm = <<>>)]_vars


\* the entries of the pages from week w on, in the order of the list
RECURSIVE EntriesFrom(_)
EntriesFrom(w) ==
    IF w > Len(BILLBOARD_WEEKS_2020) THEN <<>>
    ELSE scrape_billboard(pages[w], BILLBOARD_WEEKS_2020[w]) \o EntriesFrom(w + 1)

\* the chart entry a ScrapedSongs row holds
EntryOf(row) ==
    [song_title |-> row.song_title, artist_name |-> artists[row.artist_id],
     chart_date |-> row.chart_date, genre |-> row.genre]

\* C24: the scrape stage does not consult the stored rows: every run starts
\* at the first week and stores the first MAX_PER_RUN entries of the pages,
\* at most MAX_PER_RUN rows a run; a run on unchanged pages after another
\* one stores the same entries again, so that ScrapedSongs holds two rows
\* with the same title, artist and chart date.
C24_EveryRunStoresTheSameEntries ==
    /\ [](sbInserted <= MAX_PER_RUN)
    /\ [](sbState = "done" =>
              LET run == FirstSongs(EntriesFrom(1), MAX_PER_RUN)
                  before == Len(scraped) - sbInserted
              IN  /\ sbInserted = Len(run)
                  /\ \A i \in 1..sbInserted : EntryOf(scraped[before + i]) = run[i]
                  /\ (before > 0 /\ sbInserted > 0) => scraped[1] = scraped[before + 1])
    /\ [][/\ (sbState = "idle" /\ sbState' = "running") => (sbWeek' = 1 /\ sbInserted' = 0)
          /\ sbState = "running" =>
                 Len(scraped') - Len(scraped) = sbInserted' - sbInserted]_vars

\* two runs have each stored MAX_PER_RUN rows, the second the rows of the
\* first again
C24_Witness ==
    /\ sbState = "done"
    /\ sbInserted = MAX_PER_RUN
    /\ Len(scraped) = 2 * MAX_PER_RUN
    /\ \A i \in 1..MAX_PER_RUN : scraped[i] = scraped[MAX_PER_RUN + i]


\* the columns of a table of the schema
ColumnsOf(sch, name) == UNION {o.columns : o \in {x \in sch : x.name = name}}

\* the schema after the two create_tables ran on an empty database, in
\* either order
DbSetupThenCdcApi == CreateIfNotExists(CreateIfNotExists({}, DbSetupTables), CdcApiTables)
CdcApiThenDbSetup == CreateIfNotExists(CreateIfNotExists({}, CdcApiTables), DbSetupTables)

\* both create_tables have run: Artists comes from db_setup.py only, a
\* ScrapedSongs with artist_name from cdc_api.py only
BothCreateTablesRan ==
    /\ HasColumns(schema, "Artists", {})
    /\ cdcState # "idle" \/ HasColumns(schema, "ScrapedSongs", {"artist_name"})

\* C28: after both create_tables ran on an empty database, the columns of
\* ScrapedSongs and of CDCRaw are the same whichever ran first, and
\* ScrapedSongs has the column artist_id.
C28_SchemaIndependentOfOrder ==
    BothCreateTablesRan =>
        /\ \A t \in {"ScrapedSongs", "CDCRaw"} :
               /\ ColumnsOf(schema, t) = ColumnsOf(DbSetupThenCdcApi, t)
               /\ ColumnsOf(schema, t) = ColumnsOf(CdcApiThenDbSetup, t)
        /\ "artist_id" \in ColumnsOf(schema, "ScrapedSongs")

====
